---- MODULE Spec2Model ----
(***************************************************************************)
(* A model of cptemp (src/cptemp.py): resolving a template from a query,  *)
(* guarding against copying a directory template into itself, and copying *)
(* it into the targets in rename mode or as-is mode.                      *)
(*                                                                         *)
(* A file name is a sequence of tokens, "." being the dot, so that         *)
(* "template.typ" is <<"template", ".", "typ">> and "templates.txt" is     *)
(* <<"template", "s", ".", "txt">>: a name that starts with the characters *)
(* "template" has "template" as its first token.  A path is the sequence   *)
(* of the names from the filesystem root; <<>> is "/".  The filesystem is  *)
(* a function from the existing paths to nodes; a file's data is the path  *)
(* at which its bytes were first stored, so every initial file has         *)
(* content of its own.  Symbolic links, permissions, "~" and wildcard      *)
(* characters in a query, and surrounding white space are not modelled.    *)
(***************************************************************************)
EXTENDS Naturals, Sequences, FiniteSets

VARIABLES fs, fs0, args, tempdirs, pc, status, err, temppath, srcpath, idx,
          dmatches, fmatches, searched, warns, copied, skipped

vars == <<fs, fs0, args, tempdirs, pc, status, err, temppath, srcpath, idx,
          dmatches, fmatches, searched, warns, copied, skipped>>

\* The longest target list of a run.
MaxTargets == 2

(***************************************************************************)
(* Names and paths (pathlib)                                               *)
(***************************************************************************)
Dot == "."

DotDot == <<Dot, Dot>>

NoPath == << <<"<none>">> >>

\* PurePath.parent: the parent of "/" is "/".
Parent(p) == IF p = <<>> THEN <<>> ELSE SubSeq(p, 1, Len(p) - 1)

\* PurePath.name: the last component, empty for "/".
NameOf(p) == IF p = <<>> THEN <<>> ELSE p[Len(p)]

\* PurePath.parents: every proper ancestor.
Parents(p) == {SubSeq(p, 1, k) : k \in 0..(Len(p) - 1)}

\* The index of the last dot of a name that starts a suffix: name.rfind(".")
\* with 0 < i < len(name) - 1 (0-based), else 0.
SuffixAt(name) ==
    LET dots == {i \in 2..(Len(name) - 1) : name[i] = Dot}
    IN  IF dots = {} THEN 0 ELSE CHOOSE i \in dots : \A j \in dots : j <= i

\* PurePath.suffix of a name.
SuffixOfName(name) ==
    IF SuffixAt(name) = 0 THEN <<>> ELSE SubSeq(name, SuffixAt(name), Len(name))

\* PurePath.stem of a name.
StemOfName(name) ==
    IF SuffixAt(name) = 0 THEN name ELSE SubSeq(name, 1, SuffixAt(name) - 1)

Suffix(p) == SuffixOfName(NameOf(p))

Stem(p) == StemOfName(NameOf(p))

\* Path.resolve() without symbolic links: ".." pops a component ("/.." is "/").
RECURSIVE Normalize(_, _)
Normalize(done, rest) ==
    IF rest = <<>> THEN done
    ELSE IF Head(rest) = DotDot THEN Normalize(Parent(done), Tail(rest))
    ELSE Normalize(Append(done, Head(rest)), Tail(rest))

\* The process's working directory and the user's home directory.
HOME == << <<"home">> >>

Cwd == HOME \o << <<"w">> >>

\* Path(s).expanduser().resolve() of a path string s = [abs, parts].
ResolvePath(s) == Normalize(IF s.abs THEN <<>> ELSE Cwd, s.parts)

\* tempdir / tempstr: an absolute right operand replaces the left one.
JoinPath(dir, s) == IF s.abs THEN s.parts ELSE dir \o s.parts

\* looks_like_path: the string holds a separator.
looks_like_path(s) == s.abs \/ Len(s.parts) > 1

(***************************************************************************)
(* The filesystem (os, shutil)                                             *)
(***************************************************************************)
DirNode == [kind |-> "dir", data |-> <<>>]

FileNode(data) == [kind |-> "file", data |-> data]

Exists(f, p) == p \in DOMAIN f

IsDir(f, p) == p \in DOMAIN f /\ f[p].kind = "dir"

IsFile(f, p) == p \in DOMAIN f /\ f[p].kind = "file"

IsUnder(dir, p) == Len(p) > Len(dir) /\ SubSeq(p, 1, Len(dir)) = dir

\* The operating system's lookup of a path that may hold "..": every
\* component is looked up in the directory reached so far.
RECURSIVE OsLookup(_, _, _)
OsLookup(f, cur, rest) ==
    IF rest = <<>> THEN cur
    ELSE IF ~IsDir(f, cur) THEN NoPath
    ELSE IF Head(rest) = DotDot THEN OsLookup(f, Parent(cur), Tail(rest))
    ELSE IF Append(cur, Head(rest)) \in DOMAIN f
         THEN OsLookup(f, Append(cur, Head(rest)), Tail(rest))
         ELSE NoPath

\* The node a raw path reaches, or NoPath.
Lookup(f, raw) == OsLookup(f, <<>>, raw)

Put(f, p, node) == [q \in DOMAIN f \cup {p} |-> IF q = p THEN node ELSE f[q]]

\* Path.mkdir(parents=True, exist_ok=True).
Mkdirs(f, p) ==
    IF IsDir(f, p) THEN [exc |-> "", fs |-> f]
    ELSE IF IsFile(f, p) THEN [exc |-> "FileExistsError", fs |-> f]
    ELSE IF \E a \in Parents(p) : IsFile(f, a)
         THEN [exc |-> "NotADirectoryError", fs |-> f]
    ELSE [exc |-> "",
          fs |-> [q \in DOMAIN f \cup Parents(p) \cup {p} |->
                     IF q \in DOMAIN f THEN f[q] ELSE DirNode]]

\* shutil.copy2(src, dst): a directory dst takes the copy under src's name.
Copy2Dest(f, src, dst) == IF IsDir(f, dst) THEN Append(dst, NameOf(src)) ELSE dst

Copy2(f, src, dst) ==
    LET d == Copy2Dest(f, src, dst)
    IN  IF ~Exists(f, src) THEN [exc |-> "FileNotFoundError", fs |-> f]
        ELSE IF d = src THEN [exc |-> "SameFileError", fs |-> f]
        ELSE IF IsDir(f, src) \/ IsDir(f, d)
             THEN [exc |-> "IsADirectoryError", fs |-> f]
        ELSE IF \E a \in Parents(d) : IsFile(f, a)
             THEN [exc |-> "NotADirectoryError", fs |-> f]
        ELSE IF ~IsDir(f, Parent(d)) THEN [exc |-> "FileNotFoundError", fs |-> f]
        ELSE [exc |-> "", fs |-> Put(f, d, f[src])]

\* shutil.rmtree(p).
RmTree(f, p) == [q \in {r \in DOMAIN f : r # p /\ ~IsUnder(p, r)} |-> f[q]]

Children(f, dir) == {p \in DOMAIN f : Len(p) = Len(dir) + 1 /\ IsUnder(dir, p)}

\* shutil.copytree(src, dst, dirs_exist_ok=True): the entries of src are
\* listed once, each is copied, the errors are collected and raised at the end.
RECURSIVE CopyTree(_, _, _)
RECURSIVE CopyEntries(_, _, _)
CopyEntries(f, entries, dst) ==
    IF entries = {} THEN [exc |-> "", fs |-> f]
    ELSE LET e == CHOOSE x \in entries : TRUE
             to == Append(dst, NameOf(e))
             one == IF IsDir(f, e) THEN CopyTree(f, e, to) ELSE Copy2(f, e, to)
             rest == CopyEntries(one.fs, entries \ {e}, dst)
         IN  [exc |-> IF one.exc # "" \/ rest.exc # "" THEN "Error" ELSE "",
              fs |-> rest.fs]

CopyTree(f, src, dst) ==
    LET made == Mkdirs(f, dst)
    IN  IF made.exc # "" THEN made
        ELSE CopyEntries(made.fs, Children(f, src), dst)

(***************************************************************************)
(* Template resolution                                                     *)
(***************************************************************************)
TempsName == <<"temps">>

Temps2Name == <<"temps", "2">>

TypstName == <<"typsttemp">>

TemplateTyp == <<"template", Dot, "typ">>

\* TEMPDIRS as the source sets it: one template directory.
TEMPDIRS == << HOME \o <<TempsName>> >>

\* DEFAULT_TEMP, and the query string str(DEFAULT_TEMP).
DEFAULT_TEMP == HOME \o <<TempsName, TypstName, TemplateTyp>>

NoTemplate == [abs |-> FALSE, parts |-> << <<"<None>">> >>]

\* args.template or str(DEFAULT_TEMP).
TemplateArg(a) ==
    IF a.template = NoTemplate \/ (a.template.parts = <<>> /\ ~a.template.abs)
    THEN [abs |-> TRUE, parts |-> DEFAULT_TEMP]
    ELSE a.template

RootMissing(dir) == [w |-> "SearchRootMissing", at |-> dir]

SkippedFile(target) == [w |-> "SkippedFileTarget", at |-> target]

\* Path.glob(tempstr) of a pattern without wildcards, kept to the regular
\* files: an absolute pattern is refused by pathlib.
GlobFiles(f, tempdir, s) ==
    IF s.abs THEN [exc |-> "NotImplementedError", fs |-> <<>>]
    ELSE IF s.parts = <<>> THEN [exc |-> "ValueError", fs |-> <<>>]
    ELSE IF IsFile(f, Lookup(f, tempdir \o s.parts))
         THEN [exc |-> "", fs |-> <<tempdir \o s.parts>>]
         ELSE [exc |-> "", fs |-> <<>>]

\* search_tempdir(tempstr, tempdir): the directory and the file matches.
search_tempdir(f, s, tempdir) ==
    LET tpath == JoinPath(tempdir, s)
    IN  IF Lookup(f, tempdir) = NoPath
        THEN [exc |-> "", ds |-> <<>>, fs |-> <<>>, warn |-> <<RootMissing(tempdir)>>]
        ELSE IF IsDir(f, Lookup(f, tpath))
        THEN [exc |-> "", ds |-> <<tpath>>, fs |-> <<>>, warn |-> <<>>]
        ELSE IF looks_like_path(s) /\ IsFile(f, Lookup(f, tpath))
        THEN [exc |-> "", ds |-> <<>>, fs |-> <<tpath>>, warn |-> <<>>]
        ELSE [exc |-> GlobFiles(f, tempdir, s).exc, ds |-> <<>>,
              fs |-> GlobFiles(f, tempdir, s).fs, warn |-> <<>>]

\* The loop over TEMPDIRS: the matches are aggregated in the order of the
\* template directories; an exception ends the loop where it is raised.
RECURSIVE SearchAll(_, _, _, _)
SearchAll(f, s, dirs, acc) ==
    IF dirs = <<>> \/ acc.exc # "" THEN acc
    ELSE LET one == search_tempdir(f, s, Head(dirs))
         IN  SearchAll(f, s, Tail(dirs),
                       [exc |-> one.exc,
                        ds |-> acc.ds \o one.ds,
                        fs |-> acc.fs \o one.fs,
                        warn |-> acc.warn \o one.warn,
                        searched |-> Append(acc.searched, Head(dirs))])

NoSearch == [exc |-> "", ds |-> <<>>, fs |-> <<>>, warn |-> <<>>, searched |-> <<>>]

\* The disambiguation of the aggregated matches.
ResolveDecision(dm, fm) ==
    IF Len(dm) = 1 THEN [kind |-> "path", path |-> dm[1], err |-> ""]
    ELSE IF Len(dm) + Len(fm) > 1
         THEN [kind |-> "fatal", path |-> NoPath, err |-> "AmbiguousMatch"]
    ELSE IF fm # <<>> THEN [kind |-> "path", path |-> fm[1], err |-> ""]
    ELSE [kind |-> "fatal", path |-> NoPath, err |-> "NotFound"]

\* A resolver that searches the template directories before it tries the
\* query as a path.
resolve_template_roots_first(f, dirs, s) ==
    LET found == SearchAll(f, s, dirs, NoSearch)
        decided == ResolveDecision(found.ds, found.fs)
    IN  IF found.exc # ""
        THEN [kind |-> "crash", path |-> NoPath, err |-> found.exc, search |-> found]
        ELSE IF decided.kind # "path" /\ Exists(f, ResolvePath(s))
        THEN [kind |-> "path", path |-> ResolvePath(s), err |-> "", search |-> found]
        ELSE [kind |-> decided.kind, path |-> decided.path, err |-> decided.err,
              search |-> found]

\* resolve_template(tempstr).
resolve_template(f, dirs, s) ==
    LET found == SearchAll(f, s, dirs, NoSearch)
    IN  IF Exists(f, ResolvePath(s))
        THEN [kind |-> "path", path |-> ResolvePath(s), err |-> "", search |-> NoSearch]
        ELSE IF found.exc # ""
        THEN [kind |-> "crash", path |-> NoPath, err |-> found.exc, search |-> found]
        ELSE [kind |-> ResolveDecision(found.ds, found.fs).kind,
              path |-> ResolveDecision(found.ds, found.fs).path,
              err |-> ResolveDecision(found.ds, found.fs).err,
              search |-> found]

(***************************************************************************)
(* The template file of a directory, the guard, the two copy modes         *)
(***************************************************************************)
\* fnmatch of a name against "template*".
GlobTemplate(name) == name # <<>> /\ name[1] = "template"

\* searchdir.rglob("template*") kept to the regular files.
TemplateMatches(f, searchdir) ==
    {p \in DOMAIN f : IsUnder(searchdir, p) /\ GlobTemplate(NameOf(p)) /\ IsFile(f, p)}

\* find_tempfile(searchdir).
find_tempfile(f, searchdir) ==
    LET matches == TemplateMatches(f, searchdir)
    IN  IF matches = {} THEN [err |-> "NoTemplateFile", path |-> NoPath]
        ELSE IF Cardinality(matches) > 1
             THEN [err |-> "MultipleTemplateFiles", path |-> NoPath]
        ELSE [err |-> "", path |-> CHOOSE m \in matches : TRUE]

\* The targets of the run: the working directory when none is given.
Targets(a) ==
    IF a.targets = <<>> THEN <<Cwd>>
    ELSE [i \in 1..Len(a.targets) |-> ResolvePath(a.targets[i])]

\* A guard that misses the targets inside the template.
GuardHitEqualOnly(tp, target) == tp = target

\* A guard that also rejects the targets above the template.
GuardHitBothWays(tp, target) ==
    tp = target \/ tp \in Parents(target) \/ target \in Parents(tp)

\* The guard's test of one target against a directory template.
GuardHit(tp, target) == tp = target \/ tp \in Parents(target)

\* copy_rename: whether the target is taken as a file target.
IsFileTarget(f, target) == IsFile(f, target) \/ Suffix(target) # <<>>

\* copy_rename: the name the copy gets in a directory target.
BaseName(target, src) ==
    IF NameOf(target) # <<>> THEN NameOf(target)
    ELSE IF NameOf(Parent(target)) # <<>> THEN NameOf(Parent(target))
    ELSE Stem(src)

RenameDest(target, src) == Append(target, BaseName(target, src) \o Suffix(src))

\* One pass of copy_rename's loop.
RenameOne(f, src, target) ==
    IF IsFileTarget(f, target)
    THEN LET made == Mkdirs(f, Parent(target))
         IN  IF made.exc # ""
             THEN [exc |-> made.exc, fs |-> made.fs, kind |-> "file", dest |-> target]
             ELSE [exc |-> Copy2(made.fs, src, target).exc,
                   fs |-> Copy2(made.fs, src, target).fs,
                   kind |-> "file", dest |-> target]
    ELSE LET made == Mkdirs(f, target)
             dest == RenameDest(target, src)
         IN  IF made.exc # ""
             THEN [exc |-> made.exc, fs |-> made.fs, kind |-> "dir", dest |-> dest]
             ELSE [exc |-> Copy2(made.fs, src, dest).exc,
                   fs |-> Copy2(made.fs, src, dest).fs,
                   kind |-> "dir", dest |-> dest]

\* A skip test that looks for a directory where the code looks for a file.
NorenameSkipsDirectories(f, target) == IsDir(f, target)

\* copy_norename: the test that skips a target.
NorenameSkips(f, target) == IsFile(f, target)

\* One pass of copy_norename's loop over a target that is not skipped.
NorenameOne(f, tp, target) ==
    LET made == Mkdirs(f, target)
        target_path == Append(target, NameOf(tp))
        cleared == IF IsDir(made.fs, target_path)
                   THEN RmTree(made.fs, target_path) ELSE made.fs
    IN  IF made.exc # "" THEN [exc |-> made.exc, fatal |-> "", fs |-> made.fs]
        ELSE IF IsFile(made.fs, tp)
        THEN [exc |-> Copy2(cleared, tp, target_path).exc, fatal |-> "",
              fs |-> Copy2(cleared, tp, target_path).fs]
        ELSE IF IsDir(made.fs, tp)
        THEN [exc |-> CopyTree(made.fs, tp, target).exc, fatal |-> "",
              fs |-> CopyTree(made.fs, tp, target).fs]
        ELSE [exc |-> "", fatal |-> "TemplateMissing", fs |-> made.fs]

\* list_fzf_candidates(): the immediate entries of the template directories.
RECURSIVE list_fzf_candidates(_, _)
list_fzf_candidates(f, dirs) ==
    IF dirs = <<>> THEN [out |-> {}, warn |-> <<>>]
    ELSE LET rest == list_fzf_candidates(f, Tail(dirs))
         IN  IF ~Exists(f, Head(dirs))
             THEN [out |-> rest.out, warn |-> <<RootMissing(Head(dirs))>> \o rest.warn]
             ELSE [out |-> Children(f, Head(dirs)) \cup rest.out, warn |-> rest.warn]

\* What the fzf process can answer: an entry, a cancellation, or no fzf at all.
FzfAnswers(cands) ==
    {[kind |-> "picked", path |-> c] : c \in cands}
        \cup {[kind |-> "PickerCancelled", path |-> NoPath],
              [kind |-> "PickerUnavailable", path |-> NoPath]}

(***************************************************************************)
(* main()                                                                  *)
(***************************************************************************)
Exit(st, e) == pc' = "exit" /\ status' = st /\ err' = e

\* resolve_template(args.template or str(DEFAULT_TEMP)).
Resolve ==
    /\ pc = "resolve" /\ ~args.fuzzy
    /\ LET r == resolve_template(fs, tempdirs, TemplateArg(args))
       IN  /\ dmatches' = r.search.ds
           /\ fmatches' = r.search.fs
           /\ searched' = r.search.searched
           /\ warns' = warns \o r.search.warn
           /\ IF r.kind = "path"
              THEN pc' = "guard" /\ temppath' = r.path /\ UNCHANGED <<status, err>>
              ELSE Exit(r.kind, r.err) /\ UNCHANGED temppath
    /\ UNCHANGED <<fs, fs0, args, tempdirs, srcpath, idx, copied, skipped>>

\* fzf_pick(list_fzf_candidates()).
FuzzyPick ==
    /\ pc = "resolve" /\ args.fuzzy
    /\ LET c == list_fzf_candidates(fs, tempdirs)
       IN  /\ warns' = warns \o c.warn
           /\ IF c.out = {}
              THEN Exit("fatal", "NoCandidates") /\ UNCHANGED temppath
              ELSE \E a \in FzfAnswers(c.out) :
                      IF a.kind = "picked"
                      THEN pc' = "guard" /\ temppath' = a.path /\ UNCHANGED <<status, err>>
                      ELSE Exit("fatal", a.kind) /\ UNCHANGED temppath
    /\ UNCHANGED <<fs, fs0, args, tempdirs, srcpath, idx, dmatches, fmatches,
                   searched, copied, skipped>>

\* The guard: every target is tested before the copy is called.
Guard ==
    /\ pc = "guard"
    /\ temppath' = IF IsDir(fs, temppath) THEN Normalize(<<>>, temppath) ELSE temppath
    /\ IF IsDir(fs, temppath)
          /\ \E i \in 1..Len(Targets(args)) : GuardHit(temppath', Targets(args)[i])
       THEN Exit("fatal", "DestructiveNesting")
       ELSE pc' = "copy" /\ UNCHANGED <<status, err>>
    /\ UNCHANGED <<fs, fs0, args, tempdirs, srcpath, idx, dmatches,
                   fmatches, searched, warns, copied, skipped>>

\* copy_rename up to its loop: the template file of a directory template.
CopyRenameStart ==
    /\ pc = "copy" /\ ~args.as_is
    /\ LET found == IF IsDir(fs, temppath) THEN find_tempfile(fs, temppath)
                    ELSE [err |-> "", path |-> temppath]
       IN  IF found.err # ""
           THEN Exit("fatal", found.err) /\ UNCHANGED <<srcpath, idx>>
           ELSE pc' = "loop" /\ srcpath' = found.path /\ idx' = 1
                /\ UNCHANGED <<status, err>>
    /\ UNCHANGED <<fs, fs0, args, tempdirs, temppath, dmatches, fmatches,
                   searched, warns, copied, skipped>>

\* copy_norename up to its loop: the template must exist.
CopyNorenameStart ==
    /\ pc = "copy" /\ args.as_is
    /\ IF ~Exists(fs, temppath)
       THEN Exit("fatal", "TemplateMissing") /\ UNCHANGED <<srcpath, idx>>
       ELSE pc' = "loop" /\ srcpath' = temppath /\ idx' = 1
            /\ UNCHANGED <<status, err>>
    /\ UNCHANGED <<fs, fs0, args, tempdirs, temppath, dmatches, fmatches,
                   searched, warns, copied, skipped>>

\* One pass of copy_rename's loop.
CopyRenameTarget ==
    /\ pc = "loop" /\ ~args.as_is /\ idx <= Len(Targets(args))
    /\ LET r == RenameOne(fs, srcpath, Targets(args)[idx])
       IN  /\ fs' = r.fs
           /\ IF r.exc # ""
              THEN Exit("crash", r.exc) /\ UNCHANGED <<idx, copied>>
              ELSE /\ idx' = idx + 1
                   /\ copied' = copied \cup {[i |-> idx, kind |-> r.kind, dest |-> r.dest]}
                   /\ UNCHANGED <<pc, status, err>>
    /\ UNCHANGED <<fs0, args, tempdirs, temppath, srcpath, dmatches, fmatches,
                   searched, warns, skipped>>

\* One pass of copy_norename's loop.
CopyNorenameTarget ==
    /\ pc = "loop" /\ args.as_is /\ idx <= Len(Targets(args))
    /\ LET target == Targets(args)[idx]
           r == NorenameOne(fs, temppath, target)
       IN  IF NorenameSkips(fs, target)
           THEN /\ warns' = Append(warns, SkippedFile(target))
                /\ skipped' = skipped \cup {[i |-> idx, node |-> fs[target]]}
                /\ idx' = idx + 1
                /\ UNCHANGED <<fs, pc, status, err, copied>>
           ELSE /\ fs' = r.fs
                /\ UNCHANGED <<warns, skipped>>
                /\ IF r.exc # "" THEN Exit("crash", r.exc) /\ UNCHANGED <<idx, copied>>
                   ELSE IF r.fatal # ""
                   THEN Exit("fatal", r.fatal) /\ UNCHANGED <<idx, copied>>
                   ELSE /\ idx' = idx + 1
                        /\ copied' = copied \cup {[i |-> idx, kind |-> "dir", dest |-> target]}
                        /\ UNCHANGED <<pc, status, err>>
    /\ UNCHANGED <<fs0, args, tempdirs, temppath, srcpath, dmatches, fmatches,
                   searched>>

\* The loop is over: "Done!" and exit status 0.
Finish ==
    /\ pc = "loop" /\ idx > Len(Targets(args))
    /\ Exit("ok", "")
    /\ UNCHANGED <<fs, fs0, args, tempdirs, temppath, srcpath, idx, dmatches,
                   fmatches, searched, warns, copied, skipped>>

Next ==
    \/ Resolve
    \/ FuzzyPick
    \/ Guard
    \/ CopyRenameStart
    \/ CopyNorenameStart
    \/ CopyRenameTarget
    \/ CopyNorenameTarget
    \/ Finish

(***************************************************************************)
(* The initial states: a filesystem, the command line, the template        *)
(* directories.  A relative query holds no ".." component.                 *)
(***************************************************************************)
Lab3Name == <<"lab3">>

Lab3Typ == <<"lab3", Dot, "typ">>

NotesMd == <<"notes", Dot, "md">>

NewName == <<"new">>

FName == <<"f">>

SubName == <<"sub">>

FigPng == <<"fig", Dot, "png">>

TemplateBare == <<"template">>

TemplatesTxt == <<"template", "s", Dot, "txt">>

TemplateOld == <<"template", "_old", Dot, "typ">>

TemplateBib == <<"template", Dot, "bib">>

NothingName == <<"nothing">>

Temps == HOME \o <<TempsName>>

Temps2 == HOME \o <<Temps2Name>>

Typst == Temps \o <<TypstName>>

Abs(p) == [abs |-> TRUE, parts |-> p]

Rel(p) == [abs |-> FALSE, parts |-> p]

\* The filesystem of a set of <<path, kind>> choices over "/", HOME and the
\* working directory: an entry exists when its kind is not "none" and every
\* directory above it exists.
FsOf(S) ==
    LET base == {<<>>, HOME, Cwd}
        kindOf(p) == IF p \in base THEN "dir"
                     ELSE IF \E e \in S : e[1] = p
                     THEN (CHOOSE e \in S : e[1] = p)[2] ELSE "none"
        live == {p \in base \cup {e[1] : e \in S} :
                    kindOf(p) # "none" /\ \A a \in Parents(p) : kindOf(a) = "dir"}
    IN  [p \in live |-> IF kindOf(p) = "dir" THEN DirNode ELSE FileNode(p)]

TargetLists(cands) == UNION {[1..n -> cands] : n \in 0..MaxTargets}

InitWith(f, dirs, a) ==
    /\ fs = f /\ fs0 = f /\ args = a /\ tempdirs = dirs
    /\ pc = "resolve" /\ status = "running" /\ err = ""
    /\ temppath = NoPath /\ srcpath = NoPath /\ idx = 0
    /\ dmatches = <<>> /\ fmatches = <<>> /\ searched = <<>> /\ warns = <<>>
    /\ copied = {} /\ skipped = {}

\* Resolution: what the template directories and the working directory hold.
WorldsR ==
    {{<<Temps, kt>>, <<Typst, kx>>, <<Typst \o <<TemplateTyp>>, kf>>,
      <<Temps2, kt2>>, <<Temps2 \o <<TypstName>>, kx2>>,
      <<Cwd \o <<TypstName>>, kw>>} :
        kt \in {"none", "dir"}, kx \in {"none", "file", "dir"},
        kf \in {"none", "file"}, kt2 \in {"none", "dir"},
        kx2 \in {"none", "file", "dir"}, kw \in {"none", "file", "dir"}}

QueriesR ==
    {NoTemplate, Rel(<<TypstName>>), Rel(<<TypstName, TemplateTyp>>),
     Rel(<<NothingName>>), Abs(Typst), Abs(Cwd \o <<DotDot, TempsName, TypstName>>),
     Abs(HOME \o <<NothingName>>)}

ArgsR ==
    {[template |-> q, fuzzy |-> FALSE, as_is |-> m, targets |-> t] :
        q \in QueriesR, m \in BOOLEAN, t \in {<<>>, <<Abs(Cwd \o <<Lab3Name>>)>>}}
      \cup {[template |-> NoTemplate, fuzzy |-> TRUE, as_is |-> m, targets |-> <<>>] :
              m \in BOOLEAN}

InitR ==
    \E S \in WorldsR, dirs \in {TEMPDIRS, TEMPDIRS \o <<Temps2>>}, a \in ArgsR :
        InitWith(FsOf(S), dirs, a)

\* The template file of a directory: what the template directory holds.
WorldsL ==
    {{<<Temps, "dir">>, <<Typst, "dir">>, <<Typst \o <<SubName>>, "dir">>,
      <<Typst \o <<TemplateTyp>>, k1>>, <<Typst \o <<TemplateBare>>, k2>>,
      <<Typst \o <<TemplatesTxt>>, k3>>, <<Typst \o <<TemplateOld>>, k4>>,
      <<Typst \o <<SubName, TemplateBib>>, k5>>} :
        k1 \in {"none", "file"}, k2 \in {"none", "file", "dir"},
        k3 \in {"none", "file"}, k4 \in {"none", "file"}, k5 \in {"none", "file"}}

ArgsL ==
    {[template |-> Rel(<<TypstName>>), fuzzy |-> FALSE, as_is |-> m,
      targets |-> <<Abs(Cwd \o <<Lab3Name>>)>>] : m \in BOOLEAN}

InitL == \E S \in WorldsL, a \in ArgsL : InitWith(FsOf(S), TEMPDIRS, a)

\* Copying: what the targets hold, and where they lie.
WorldsC ==
    {{<<Temps, "dir">>, <<Typst, "dir">>, <<Typst \o <<TemplateTyp>>, "file">>,
      <<Typst \o <<SubName>>, "dir">>, <<Typst \o <<SubName, FigPng>>, "file">>,
      <<Typst \o <<TypstName>>, k1>>, <<Temps \o <<FName>>, "file">>,
      <<Cwd \o <<FName>>, "file">>,
      <<Cwd \o <<Lab3Name>>, k2>>, <<Cwd \o <<Lab3Name, Lab3Typ>>, k3>>,
      <<Cwd \o <<NewName>>, k4>>, <<Cwd \o <<NewName, NotesMd>>, k5>>} :
        k1 \in {"none", "file"}, k2 \in {"none", "dir"},
        k3 \in {"none", "file", "dir"}, k4 \in {"none", "dir"},
        k5 \in {"none", "file", "dir"}}

QueriesC ==
    {Rel(<<TypstName>>), Rel(<<TypstName, TemplateTyp>>), Rel(<<TypstName, TypstName>>),
     Abs(Temps \o <<FName>>)}

TargetsC ==
    {Abs(Cwd \o <<Lab3Name>>), Abs(Cwd \o <<NewName, NotesMd>>), Abs(Cwd \o <<FName>>),
     Abs(Cwd), Abs(<<>>)}

ArgsC ==
    {[template |-> q, fuzzy |-> FALSE, as_is |-> m, targets |-> t] :
        q \in QueriesC, m \in BOOLEAN, t \in TargetLists(TargetsC)}

InitC == \E S \in WorldsC, a \in ArgsC : InitWith(FsOf(S), TEMPDIRS, a)

\* Nesting: targets in, at and above the template.
WorldsN ==
    {{<<Temps, "dir">>, <<Typst, "dir">>, <<Typst \o <<TemplateTyp>>, "file">>,
      <<Typst \o <<SubName>>, "dir">>, <<Typst \o <<SubName, FigPng>>, "file">>,
      <<Typst \o <<TypstName>>, k1>>, <<Temps \o <<FName>>, "file">>,
      <<Cwd \o <<FName>>, "file">>} : k1 \in {"none", "file"}}

TargetsN ==
    {Abs(Cwd \o <<Lab3Name>>), Abs(Cwd \o <<FName>>), Abs(Typst \o <<SubName>>),
     Abs(Typst), Abs(Temps)}

ArgsN ==
    {[template |-> q, fuzzy |-> FALSE, as_is |-> m, targets |-> t] :
        q \in QueriesC, m \in BOOLEAN, t \in TargetLists(TargetsN)}

InitN == \E S \in WorldsN, a \in ArgsN : InitWith(FsOf(S), TEMPDIRS, a)

Init == InitR \/ InitL \/ InitC \/ InitN

Spec == Init /\ [][Next]_vars

(***************************************************************************)
(* Properties                                                              *)
(***************************************************************************)
Query == TemplateArg(args)

TargetList == Targets(args)

\* resolve_template has run, on a query that is no existing path.
SearchedForQuery ==
    ~args.fuzzy /\ pc # "resolve" /\ ~Exists(fs0, ResolvePath(Query))

Returned(p) == temppath = p /\ err \notin {"AmbiguousMatch", "NotFound"}

Failed(e) == temppath = NoPath /\ status = "fatal" /\ err = e

\* The template directories that hold the query as a directory.
RootsWithDirectory ==
    {i \in 1..Len(tempdirs) :
        Exists(fs0, tempdirs[i]) /\ IsDir(fs0, Lookup(fs0, JoinPath(tempdirs[i], Query)))}

\* The outcome the match lists decide: a unique directory match, else
\* ambiguity on more than one match, else the one file match, else NotFound.
OutcomeByMatchLists ==
    IF Len(dmatches) = 1 THEN Returned(dmatches[1])
    ELSE IF Len(dmatches) + Len(fmatches) > 1 THEN Failed("AmbiguousMatch")
    ELSE IF Len(fmatches) = 1 THEN Returned(fmatches[1])
    ELSE Failed("NotFound")

\* C1: when the query is not an existing path, the outcome of resolve_template
\* is the one the aggregated match lists decide (unique directory, else
\* ambiguity, else the one file, else NotFound); a unique directory match over
\* the roots is never reported as ambiguous and two or more directory matches
\* are never resolved to a path.
C1_OutcomeDecidedByMatchLists ==
    SearchedForQuery =>
        /\ OutcomeByMatchLists
        /\ Cardinality(RootsWithDirectory) = 1 => err # "AmbiguousMatch"
        /\ Cardinality(RootsWithDirectory) >= 2 => temppath = NoPath

\* The same decision on the runs whose search of the template directories
\* came to its end (no exception out of Path.glob).
ResolveDecisionAfterSearch ==
    (SearchedForQuery /\ status # "crash") =>
        /\ OutcomeByMatchLists
        /\ Len(dmatches) = Cardinality(RootsWithDirectory)
        /\ Cardinality(RootsWithDirectory) = 1 => err # "AmbiguousMatch"
        /\ Cardinality(RootsWithDirectory) >= 2 => Failed("AmbiguousMatch")

\* resolve_template has run on an absolute query that the filesystem holds.
ResolvedAbsoluteQuery ==
    ~args.fuzzy /\ pc # "resolve" /\ Query.abs /\ Lookup(fs0, Query.parts) # NoPath

NoRootConsulted ==
    /\ searched = <<>> /\ dmatches = <<>> /\ fmatches = <<>>
    /\ \A i \in 1..Len(warns) : warns[i].w # "SearchRootMissing"

NothingMatches ==
    \A i \in 1..Len(tempdirs) :
        \/ ~Exists(fs0, tempdirs[i])
        \/ Lookup(fs0, JoinPath(tempdirs[i], Query)) = NoPath

\* C3: a query (bare name, relative or absolute path) that is no existing path
\* and matches nothing in any search root ends in the NotFound error, exit
\* status 1, and in no other failure; a missing root only adds a warning.
C3_NoMatchIsNotFound ==
    (SearchedForQuery /\ NothingMatches) => (status = "fatal" /\ err = "NotFound")

\* The guard has run on a directory template.
GuardedDirectory ==
    pc \notin {"resolve", "guard"} /\ temppath # NoPath /\ IsDir(fs0, temppath)

InsideTemplate(target) == target = temppath \/ IsUnder(temppath, target)

AboveTemplate(target) == IsUnder(target, temppath)

\* C4: with a directory template T, a target anywhere in the list that is T or
\* lies inside T makes the run fail with DestructiveNesting, in either mode,
\* and nothing has been created or written by then, for any target.
C4_GuardBeforeAnyWrite ==
    /\ (GuardedDirectory /\ \E i \in 1..Len(TargetList) : InsideTemplate(TargetList[i]))
          => (status = "fatal" /\ err = "DestructiveNesting" /\ fs = fs0 /\ copied = {})
    /\ pc \in {"resolve", "guard", "copy"} => fs = fs0

\* The guard stopped a run whose second target lies inside the template and
\* whose first target, a directory yet to be created, does not.
C4_Witness ==
    /\ status = "fatal" /\ err = "DestructiveNesting" /\ Len(TargetList) = 2
    /\ IsUnder(temppath, TargetList[2])
    /\ ~InsideTemplate(TargetList[1]) /\ ~Exists(fs0, TargetList[1])

CanonicalTemplateFiles(f, dir) ==
    {p \in DOMAIN f :
        /\ IsUnder(dir, p) /\ IsFile(f, p)
        /\ \/ NameOf(p) = <<"template">>
           \/ Len(NameOf(p)) >= 2 /\ NameOf(p)[1] = "template" /\ NameOf(p)[2] = Dot}

\* copy_rename has looked for the template file of a directory template.
Located ==
    /\ ~args.as_is /\ temppath # NoPath /\ IsDir(fs0, temppath)
    /\ pc \in {"loop", "exit"} /\ err # "DestructiveNesting"

\* C6: find_tempfile considers exactly the regular files named "template" or
\* "template.*" at any depth: one gives that file, none NoTemplateFile, several
\* MultipleTemplateFiles; a file of any other name does not change the outcome.
C6_LocatorConsidersCanonicalNames ==
    Located =>
        LET files == CanonicalTemplateFiles(fs0, temppath)
        IN  IF files = {} THEN status = "fatal" /\ err = "NoTemplateFile"
            ELSE IF Cardinality(files) > 1
                 THEN status = "fatal" /\ err = "MultipleTemplateFiles"
            ELSE srcpath \in files

\* The bytes of the source file of a rename-mode copy.
SourceData == fs0[srcpath].data

\* C7: in rename mode, after the copy to a file target (an existing regular
\* file, or a path with an extension) the target path itself is a regular file
\* with the source's content, its parent directories created.
C7_FileTargetHoldsCopy ==
    ~args.as_is =>
        \A c \in copied :
            c.kind = "file" =>
                /\ IsFile(fs, TargetList[c.i])
                /\ fs[TargetList[c.i]].data = SourceData
                /\ IsDir(fs, Parent(TargetList[c.i]))

\* The name the copy is to get in a directory target: the target's basename,
\* else its parent's, else the source's stem, with the source's extension.
RenamedName(target) ==
    (IF NameOf(target) # <<>> THEN NameOf(target)
     ELSE IF NameOf(Parent(target)) # <<>> THEN NameOf(Parent(target))
     ELSE StemOfName(NameOf(srcpath))) \o SuffixOfName(NameOf(srcpath))

\* C8: in rename mode, after the copy to a directory target (no existing
\* regular file, no extension) the directory exists and target/<name><ext>
\* holds the source's content; nothing in the target is written under the
\* source's own file name unless that is the computed name.
C8_DirectoryTargetGetsRenamedCopy ==
    ~args.as_is =>
        \A c \in copied :
            c.kind = "dir" =>
                LET target == TargetList[c.i]
                    dest == Append(target, RenamedName(target))
                IN  /\ IsDir(fs, target)
                    /\ IsFile(fs, dest) /\ fs[dest].data = SourceData
                    /\ \A p \in DOMAIN fs :
                          (/\ IsUnder(target, p) /\ NameOf(p) = NameOf(srcpath)
                           /\ NameOf(p) # RenamedName(target)
                           /\ IsFile(fs, p) /\ fs[p].data = SourceData)
                              => (p \in DOMAIN fs0 /\ fs0[p] = fs[p])

CopiedTo == {c.i : c \in copied}

SkippedAt == {k.i : k \in skipped}

C10_TemplateNeverRemoved ==
    (pc \in {"copy", "loop", "exit"} /\ temppath # NoPath /\ err # "DestructiveNesting")
        => \A p \in DOMAIN fs0 :
              (p = temppath \/ IsUnder(temppath, p)) => (p \in DOMAIN fs /\ fs[p] = fs0[p])

====
